---- MODULE Spec2Model ----
(***************************************************************************)
(* PGT token-gated ticket server (src/Node.js, and the store-less variant  *)
(* src/unnamed/part_000).                                                  *)
(*                                                                         *)
(* State: the Firestore 'tickets' collection and the in-flight and         *)
(* finished /api/claim-ticket and /api/auth/pgt requests.  Every await of  *)
(* a handler is a scheduling point: the part of a handler between two      *)
(* awaits is one action.  db.runTransaction is the store's optimistic      *)
(* transaction: a read, then a commit that applies the buffered write only *)
(* if the document is unchanged since the read, and reruns the callback    *)
(* otherwise.                                                              *)
(*                                                                         *)
(* Spec       the claim endpoint, every request body                       *)
(* RaceSpec   N qualifying callers of one resource                         *)
(* LiveSpec   the race with a store that stays available, under fairness   *)
(* AuthSpec   the auth endpoint                                            *)
(* ServerSpec both endpoints, malformed addresses included                 *)
(* TierSpec   getCurrentTierLevel applied to balances around its thresholds*)
(***************************************************************************)
EXTENDS Integers, FiniteSets, Sequences, TLC

\* ------------------------------------------------------------------ bounds
NClaimReqs == 2      \* concurrent /api/claim-ticket requests
NRaceReqs == 3       \* concurrent claims of one resource (RaceSpec)
NAuthReqs == 2       \* concurrent /api/auth/pgt requests
NTickets == 3        \* provisioned TicketRecords

AuthReqs == 1..NAuthReqs
Tickets == 1..NTickets

\* ---------------------------------------------------------- configuration
\* Balances are counted in units of 1/Scale token, so that a holding of
\* less than one token (parseFloat gives a fraction) is representable.
Scale == 2

MIN_REQUIRED_BALANCE == 1 * Scale

TIERS == <<"Base", "Silver", "Gold", "Platinum">>

Missing == ""                      \* a field absent from req.body (falsy)
NoTier == "undefined"              \* TIER_MAPPING[museumId] of an unmapped id
NoDoc == 0                         \* no candidate document
NoStatus == 0                      \* no response sent yet
Empty == "empty"                   \* assignedTo / assignedTime not set

\* const TIER_MAPPING = { saadabad_palace: 'Silver' }
TIER_MAPPING(museumId) ==
    IF museumId = "saadabad_palace" THEN "Silver" ELSE NoTier

\* new web3.PublicKey(s) succeeds exactly on well-formed addresses
ValidWallets == {"W1", "W2", "W3"}
IsPublicKey(s) == s \in ValidWallets

\* The ledger behind the balance oracle: W1 holds 2,000,000 tokens, W3 holds
\* half a token, W2 has no associated token account.
HasAccount(w) == w \in {"W1", "W3"}
Ledger(w) == IF w = "W1" THEN 2000000 * Scale ELSE IF w = "W3" THEN Scale \div 2 ELSE 0

\* request inputs
\* The claim handler never parses walletAddress: to it a malformed address
\* is one more non-empty string.  Spec draws claim wallets from
\* WalletInputs; ServerSpec adds the malformed address.
Malformed == "not-a-wallet"
WalletInputs == {"W1", "W2", Missing}
AuthWalletInputs == ValidWallets \cup {Malformed, Missing}
MuseumInputs == {"saadabad_palace", "golestan_palace", Missing}
TierInputs == {TIERS[i] : i \in 1..Len(TIERS)} \cup {Missing}

\* ---------------------------------------------------------------- tickets
\* Provisioning (out of band): every record starts available, with its own
\* code; the first k records belong to saadabad_palace, the others to
\* golestan_palace.
CodeOf(t) == 1000 + t

Provisioned(t, k) ==
    [museumId |-> IF t <= k THEN "saadabad_palace" ELSE "golestan_palace",
     code |-> CodeOf(t), status |-> "available",
     assignedTo |-> Empty, assignedTime |-> Empty]

\* The pools considered: saadabad_palace has one record, or all but one.
Pools == {[t \in Tickets |-> Provisioned(t, k)] : k \in {1, NTickets - 1}}

VARIABLES
    tickets,     \* the 'tickets' collection: ticket id -> document
    commits,     \* history: per ticket, number of committed claim updates
    claim,       \* /api/claim-ticket requests
    auth,        \* /api/auth/pgt requests
    level        \* getCurrentTierLevel: the balances given and the results

vars == <<tickets, commits, claim, auth, level>>

ClaimReqs == DOMAIN claim

IdleClaim ==
    [pc |-> "idle", walletAddress |-> Missing, museumId |-> Missing,
     tier |-> Missing, ticketDoc |-> NoDoc, read |-> <<>>,
     status |-> NoStatus, ticketCode |-> 0,
     storeCalls |-> 0, storeError |-> FALSE, soldOutAtCall |-> FALSE]

IdleAuth ==
    [pc |-> "idle", walletAddress |-> Missing, status |-> NoStatus,
     balance |-> 0, oracleCalls |-> 0, oracle |-> "none"]

Init ==
    /\ tickets \in Pools
    /\ commits = [t \in Tickets |-> 0]
    /\ claim = [r \in 1..NClaimReqs |-> IdleClaim]
    /\ auth = [a \in AuthReqs |-> IdleAuth]
    /\ level = <<>>

\* ------------------------------------------------ /api/claim-ticket helpers
\* if (!walletAddress || !museumId || !tier)
FieldsMissing(walletAddress, museumId, tier) ==
    walletAddress = Missing \/ museumId = Missing \/ tier = Missing

\* mutant: the tier check without its Gold exemption
TierTooLowNoGold(museumId, tier) ==
    LET requiredTier == TIER_MAPPING(museumId)
    IN  /\ requiredTier # NoTier
        /\ tier # requiredTier /\ tier # "Platinum"

\* mutant: the comparison without the requiredTier && guard
TierTooLowUnguarded(museumId, tier) ==
    LET requiredTier == TIER_MAPPING(museumId)
    IN  tier # requiredTier /\ tier # "Gold" /\ tier # "Platinum"

\* requiredTier && (tier !== requiredTier && tier !== 'Gold' && tier !== 'Platinum')
TierTooLow(museumId, tier) ==
    LET requiredTier == TIER_MAPPING(museumId)
    IN  /\ requiredTier # NoTier
        /\ tier # requiredTier /\ tier # "Gold" /\ tier # "Platinum"

\* mutant: the query without its museumId filter
AnyMuseumTicketQuery(museumId) ==
    {t \in Tickets : tickets[t].status = "available"}

\* mutant: the query without its status filter
AnyTicketQuery(museumId) ==
    {t \in Tickets : tickets[t].museumId = museumId}

\* ticketsCollection.where('museumId','==',museumId).where('status','==','available')
AvailableTicketQuery(museumId) ==
    {t \in Tickets : tickets[t].museumId = museumId
                     /\ tickets[t].status = "available"}

\* .limit(1) ... snapshot.docs[0]: a query without orderBy is ordered by
\* document id, so the one document returned is the first by id.
FirstDoc(docs) == CHOOSE t \in docs : \A u \in docs : t <= u

\* mutant: the transaction without its re-check
NeverClaimedMeanwhile(doc) == FALSE

\* mutant: the re-check inverted, throwing while the record is available
ClaimedWhileAvailable(doc) == doc.status = "available"

\* the re-check inside the transaction: doc.data().status !== 'available'
ClaimedMeanwhile(doc) == doc.status # "available"

\* mutant: the update that assigns the record to a fixed wallet
ClaimedByFirstWallet(doc, walletAddress) ==
    [doc EXCEPT !.status = "claimed", !.assignedTo = "W1",
                !.assignedTime = "serverTimestamp"]

\* mutant: the update that leaves assignedTo out
ClaimedUnassigned(doc, walletAddress) ==
    [doc EXCEPT !.status = "claimed", !.assignedTime = "serverTimestamp"]

\* t.update(ticketRef, {status: 'claimed', assignedTo: walletAddress,
\*                      assignedTime: FieldValue.serverTimestamp()})
Claimed(doc, walletAddress) ==
    [doc EXCEPT !.status = "claimed", !.assignedTo = walletAddress,
                !.assignedTime = "serverTimestamp"]

Respond(req, code) == [req EXCEPT !.pc = "done", !.status = code]

\* history: no record of the resource is available when the call arrives
SoldOut(museumId) ==
    \A t \in Tickets : tickets[t].museumId = museumId => tickets[t].status # "available"

\* ------------------------------------------------ /api/claim-ticket actions
\* The handler up to its first await: field check (400), tier check (403),
\* then the candidate query is sent to the store.  Requests are numbered in
\* arrival order.
ClaimReceive(r, walletAddress, museumId, tier) ==
    /\ claim[r].pc = "idle"
    /\ r > 1 => claim[r - 1].pc # "idle"
    /\ LET req == [claim[r] EXCEPT !.walletAddress = walletAddress,
                                   !.museumId = museumId, !.tier = tier,
                                   !.soldOutAtCall = SoldOut(museumId)]
       IN  claim' = [claim EXCEPT ![r] =
                IF FieldsMissing(walletAddress, museumId, tier)
                THEN Respond(req, 400)
                ELSE IF TierTooLow(museumId, tier)
                THEN Respond(req, 403)
                ELSE [req EXCEPT !.pc = "search", !.storeCalls = 1]]
    /\ UNCHANGED <<tickets, commits, auth, level>>

\* await availableTicketQuery.get() resolves: 404 on an empty snapshot,
\* otherwise docs[0] becomes the candidate and the transaction is started.
ClaimSearch(r) ==
    /\ claim[r].pc = "search"
    /\ LET docs == AvailableTicketQuery(claim[r].museumId)
       IN  claim' = [claim EXCEPT ![r] =
                IF docs = {}
                THEN Respond(claim[r], 404)
                ELSE [claim[r] EXCEPT !.pc = "txn",
                                      !.ticketDoc = FirstDoc(docs),
                                      !.ticketCode = tickets[FirstDoc(docs)].code,
                                      !.storeCalls = @ + 1]]
    /\ UNCHANGED <<tickets, commits, auth, level>>

\* mutant: a handler that searches again when its candidate was taken
ClaimTxnGetRetry(r) ==
    /\ claim[r].pc = "txn"
    /\ LET doc == tickets[claim[r].ticketDoc]
       IN  claim' = [claim EXCEPT ![r] =
                IF doc.status # "available"
                THEN [claim[r] EXCEPT !.pc = "search", !.read = <<>>]
                ELSE [claim[r] EXCEPT !.pc = "commit", !.read = <<doc>>]]
    /\ UNCHANGED <<tickets, commits, auth, level>>

\* The transaction callback: t.get(ticketRef), the status re-check (throwing
\* 'Claimed by another user.' -> 409), t.update buffered, commit requested.
ClaimTxnGet(r) ==
    /\ claim[r].pc = "txn"
    /\ LET doc == tickets[claim[r].ticketDoc]
       IN  claim' = [claim EXCEPT ![r] =
                IF ClaimedMeanwhile(doc)
                THEN Respond([claim[r] EXCEPT !.ticketCode = 0, !.read = <<>>], 409)
                ELSE [claim[r] EXCEPT !.pc = "commit", !.read = <<doc>>]]
    /\ UNCHANGED <<tickets, commits, auth, level>>

\* The store commits the transaction: the write is applied only if the
\* document is unchanged since the transaction read it; otherwise the
\* transaction is retried from its callback.
ClaimTxnCommit(r) ==
    /\ claim[r].pc = "commit"
    /\ LET t == claim[r].ticketDoc
       IN  IF <<tickets[t]>> = claim[r].read
           THEN /\ tickets' = [tickets EXCEPT ![t] =
                        Claimed(@, claim[r].walletAddress)]
                /\ commits' = [commits EXCEPT ![t] = @ + 1]
                /\ claim' = [claim EXCEPT ![r].pc = "committed", ![r].read = <<>>]
           ELSE /\ claim' = [claim EXCEPT ![r].pc = "txn", ![r].read = <<>>]
                /\ UNCHANGED <<tickets, commits>>
    /\ UNCHANGED <<auth, level>>

\* await db.runTransaction(...) resolves after the commit: the handler
\* answers 200 with ticketData.code.
ClaimRespond(r) ==
    /\ claim[r].pc = "committed"
    /\ claim' = [claim EXCEPT ![r] = Respond(claim[r], 200)]
    /\ UNCHANGED <<tickets, commits, auth, level>>

\* mutant: a commit that fails after the status field was written
ClaimStoreErrorPartial(r) ==
    /\ claim[r].pc \in {"search", "txn", "commit"}
    /\ claim' = [claim EXCEPT ![r] =
            Respond([claim[r] EXCEPT !.storeError = TRUE, !.ticketCode = 0,
                                     !.read = <<>>], 500)]
    /\ tickets' = IF claim[r].pc = "commit"
                  THEN [tickets EXCEPT ![claim[r].ticketDoc].status = "claimed"]
                  ELSE tickets
    /\ UNCHANGED <<commits, auth, level>>

\* A store call rejects (network, quota, unavailable): nothing is written,
\* the handler's catch answers 500.
ClaimStoreError(r) ==
    /\ claim[r].pc \in {"search", "txn", "commit"}
    /\ claim' = [claim EXCEPT ![r] =
            Respond([claim[r] EXCEPT !.storeError = TRUE, !.ticketCode = 0,
                                     !.read = <<>>], 500)]
    /\ UNCHANGED <<tickets, commits, auth, level>>

\* The request bodies: every body with all three fields, and for every
\* choice of absent fields the body of W1 as a Base caller of
\* saadabad_palace with those fields left out (the handler returns at the
\* field check without looking at the fields that are present).
ClaimBodies(wallets) ==
    {b \in [walletAddress : wallets, museumId : MuseumInputs, tier : TierInputs] :
        FieldsMissing(b.walletAddress, b.museumId, b.tier) =>
            /\ b.walletAddress \in {"W1", Missing}
            /\ b.museumId \in {"saadabad_palace", Missing}
            /\ b.tier \in {"Base", Missing}}

ClaimNext(wallets) ==
    \/ \E r \in ClaimReqs, b \in ClaimBodies(wallets) :
           ClaimReceive(r, b.walletAddress, b.museumId, b.tier)
    \/ \E r \in ClaimReqs : ClaimSearch(r)
    \/ \E r \in ClaimReqs : ClaimTxnGet(r)
    \/ \E r \in ClaimReqs : ClaimTxnCommit(r)
    \/ \E r \in ClaimReqs : ClaimRespond(r)
    \/ \E r \in ClaimReqs : ClaimStoreError(r)

Next == ClaimNext(WalletInputs)

Spec == Init /\ [][Next]_vars

\* -------------------------------------------------- /api/auth/pgt actions
\* The handler up to the oracle round trip: missing address (400); inside
\* checkPgtBalance the PublicKey constructor throws on a malformed address,
\* which the handler's catch answers with 500; otherwise the associated
\* token address is derived and getTokenAccountBalance is sent.
AuthReceive(a, walletAddress) ==
    /\ auth[a].pc = "idle"
    /\ a > 1 => auth[a - 1].pc # "idle"
    /\ LET req == [auth[a] EXCEPT !.walletAddress = walletAddress]
       IN  auth' = [auth EXCEPT ![a] =
                IF walletAddress = Missing
                THEN Respond(req, 400)
                ELSE IF ~IsPublicKey(walletAddress)
                THEN Respond(req, 500)
                ELSE [req EXCEPT !.pc = "oracle", !.oracleCalls = 1]]
    /\ UNCHANGED <<tickets, commits, claim, level>>

\* mutant: the comparison against zero instead of the minimum
AuthDecisionNonNegative(balance) == IF balance >= 0 THEN 200 ELSE 401

\* balance >= MIN_REQUIRED_BALANCE ? 200 : 401
AuthDecision(balance) == IF balance >= MIN_REQUIRED_BALANCE THEN 200 ELSE 401

\* What checkPgtBalance returns for an oracle answer: the parsed amount, or
\* 0 from its catch-all (account not found, or any other RPC error).
BalanceOf(answer, walletAddress) ==
    IF answer = "balance" THEN Ledger(walletAddress) ELSE 0

\* connection.getTokenAccountBalance settles: with the account's balance,
\* with account-not-found, or with a timeout / connectivity error.
AuthOracleReply(a, answer) ==
    /\ auth[a].pc = "oracle"
    /\ answer = "balance" => HasAccount(auth[a].walletAddress)
    /\ answer = "not-found" => ~HasAccount(auth[a].walletAddress)
    /\ LET balance == BalanceOf(answer, auth[a].walletAddress)
       IN  auth' = [auth EXCEPT ![a] =
                Respond([auth[a] EXCEPT !.oracle = answer, !.balance = balance],
                        AuthDecision(balance))]
    /\ UNCHANGED <<tickets, commits, claim, level>>

OracleAnswers == {"balance", "not-found", "timeout"}

AuthNext ==
    \/ \E a \in AuthReqs, w \in AuthWalletInputs : AuthReceive(a, w)
    \/ \E a \in AuthReqs, answer \in OracleAnswers : AuthOracleReply(a, answer)

AuthSpec == Init /\ [][AuthNext]_vars

\* Both endpoints of the server side by side.
NServerReqs == 1     \* /api/claim-ticket requests next to the auth requests

ServerInit ==
    /\ tickets \in Pools
    /\ commits = [t \in Tickets |-> 0]
    /\ claim = [r \in 1..NServerReqs |-> IdleClaim]
    /\ auth = [a \in AuthReqs |-> IdleAuth]
    /\ level = <<>>

ServerNext == ClaimNext(WalletInputs \cup {Malformed}) \/ AuthNext

ServerSpec == ServerInit /\ [][ServerNext]_vars

\* ------------------------------------------------- getCurrentTierLevel
NearThreshold == 1   \* balances this many units either side of a threshold

\* const TIER_THRESHOLDS = { SILVER: ..., GOLD: ..., PLATINUM: ... }
TIER_THRESHOLDS ==
    [SILVER |-> 333334 * Scale, GOLD |-> 1666667 * Scale,
     PLATINUM |-> 3333334 * Scale]

\* The same cascade with the comparisons in ascending order.
getCurrentTierLevelAscending(balance) ==
    IF balance >= TIER_THRESHOLDS.SILVER THEN "Silver"
    ELSE IF balance >= TIER_THRESHOLDS.GOLD THEN "Gold"
    ELSE IF balance >= TIER_THRESHOLDS.PLATINUM THEN "Platinum"
    ELSE "Base"

getCurrentTierLevel(balance) ==
    IF balance >= TIER_THRESHOLDS.PLATINUM THEN "Platinum"
    ELSE IF balance >= TIER_THRESHOLDS.GOLD THEN "Gold"
    ELSE IF balance >= TIER_THRESHOLDS.SILVER THEN "Silver"
    ELSE "Base"

\* Balances given to the function: nothing, the holding of W1, and the
\* balances next to each threshold (half tokens included).
Balances ==
    {0, Ledger("W1")} \cup
    {TIER_THRESHOLDS[k] + d :
        k \in DOMAIN TIER_THRESHOLDS, d \in -NearThreshold..NearThreshold}

NoLevel == "none"

TierInit ==
    /\ tickets \in Pools
    /\ commits = [t \in Tickets |-> 0]
    /\ claim = [r \in 1..NClaimReqs |-> IdleClaim]
    /\ auth = [a \in AuthReqs |-> IdleAuth]
    /\ level \in [1..2 -> [balance : Balances, tier : {NoLevel}]]

Classify(i) ==
    /\ level[i].tier = NoLevel
    /\ level' = [level EXCEPT ![i].tier = getCurrentTierLevel(level[i].balance)]
    /\ UNCHANGED <<tickets, commits, claim, auth>>

TierNext == \E i \in DOMAIN level : Classify(i)

TierSpec == TierInit /\ [][TierNext]_vars

\* ----------------------------------------------- N callers, one resource
\* N concurrent claims of one resource, every caller holding exactly the
\* tier the resource requires, against its K available records.
RaceMuseum == "saadabad_palace"
RaceTier == TIER_MAPPING(RaceMuseum)
RaceWallets == ValidWallets
RaceK == Cardinality({t \in Tickets : tickets[t].museumId = RaceMuseum})

RaceInit ==
    /\ tickets \in Pools
    /\ commits = [t \in Tickets |-> 0]
    /\ claim = [r \in 1..NRaceReqs |-> IdleClaim]
    /\ auth = [a \in AuthReqs |-> IdleAuth]
    /\ level = <<>>

RaceReceive(wallets) ==
    \E r \in ClaimReqs, w \in wallets : ClaimReceive(r, w, RaceMuseum, RaceTier)

RaceNext ==
    \/ RaceReceive(RaceWallets)
    \/ \E r \in ClaimReqs : ClaimSearch(r)
    \/ \E r \in ClaimReqs : ClaimTxnGet(r)
    \/ \E r \in ClaimReqs : ClaimTxnCommit(r)
    \/ \E r \in ClaimReqs : ClaimRespond(r)
    \/ \E r \in ClaimReqs : ClaimStoreError(r)

RaceSpec == RaceInit /\ [][RaceNext]_vars

\* The same race, between the callers W1 and W2, with the store staying
\* available and every pending store round trip eventually answered.
LiveNext ==
    \/ RaceReceive({"W1", "W2"})
    \/ \E r \in ClaimReqs : ClaimSearch(r)
    \/ \E r \in ClaimReqs : ClaimTxnGet(r)
    \/ \E r \in ClaimReqs : ClaimTxnCommit(r)
    \/ \E r \in ClaimReqs : ClaimRespond(r)

Fairness ==
    \A r \in 1..NRaceReqs :
        /\ WF_vars(ClaimSearch(r))
        /\ WF_vars(ClaimTxnGet(r))
        /\ WF_vars(ClaimTxnCommit(r))
        /\ WF_vars(ClaimRespond(r))

LiveSpec == RaceInit /\ [][LiveNext]_vars /\ Fairness

\* ================================================================= claims
Done(r) == claim[r].pc = "done"
Succeeded(r) == Done(r) /\ claim[r].status = 200
\* the request went past the field check and the tier check
Admitted(r) == claim[r].pc # "idle" /\ claim[r].status \notin {400, 403}
NoStoreError == \A r \in ClaimReqs : ~claim[r].storeError

\* C1 (RaceSpec): at-most-one-claim.  On every TicketRecord, whatever the
\* interleaving of the concurrent claim requests, the available -> claimed
\* update is committed at most once, and at most one request is answered
\* 200 for that record.
AtMostOneClaim ==
    \A t \in Tickets :
        /\ commits[t] <= 1
        /\ Cardinality({r \in ClaimReqs : Succeeded(r) /\ claim[r].ticketDoc = t}) <= 1

\* C1 witness: a record was committed once while a second request, which had
\* the same record as its candidate, was turned away by the re-check.
AtMostOneClaimWitness ==
    \E t \in Tickets, r1, r2 \in ClaimReqs :
        /\ commits[t] = 1
        /\ Succeeded(r1) /\ claim[r1].ticketDoc = t
        /\ Done(r2) /\ claim[r2].status = 409 /\ claim[r2].ticketDoc = t

\* C2 (Spec): write-once transition.  Once a TicketRecord is claimed, no
\* step of any request changes its status or its assignedTo (nor its
\* assignedTime).
WriteOnce ==
    [][\A t \in Tickets :
          tickets[t].status = "claimed" =>
              /\ tickets'[t].status = "claimed"
              /\ tickets'[t].assignedTo = tickets[t].assignedTo
              /\ tickets'[t].assignedTime = tickets[t].assignedTime]_vars

\* C2 witness: a record claimed by one wallet was afterwards the candidate of
\* a finished request of another wallet.
WriteOnceWitness ==
    \E t \in Tickets, r \in ClaimReqs :
        /\ tickets[t].status = "claimed"
        /\ Done(r) /\ claim[r].ticketDoc = t
        /\ claim[r].walletAddress # tickets[t].assignedTo

\* number of requests answered 200
Successes == Cardinality({r \in ClaimReqs : Succeeded(r)})
AllDone == \A r \in ClaimReqs : Done(r)

\* the callers are pairwise different wallets
DistinctCallers ==
    \A r1, r2 \in ClaimReqs : r1 # r2 => claim[r1].walletAddress # claim[r2].walletAddress

\* C3 as stated (RaceSpec, N callers w_1..w_N, K < N available records, no
\* store error): exactly K calls succeed and the other N - K end 409 or 404.
ExactlyKSucceed ==
    (AllDone /\ NoStoreError /\ DistinctCallers) =>
        /\ Successes = RaceK
        /\ \A r \in ClaimReqs : claim[r].status \in {200, 409, 404}

\* C3 amended (RaceSpec): with N callers of one resource against K < N
\* available records, at most K calls succeed; a call that does not succeed
\* ends 409, 404 or (on a store error only) 500; and when no store error
\* occurs at least one call succeeds and every other ends 409 or 404.
AtMostKSucceed ==
    AllDone =>
        /\ Successes <= RaceK
        /\ \A r \in ClaimReqs :
              /\ claim[r].status \in {200, 409, 404, 500}
              /\ claim[r].status = 500 <=> claim[r].storeError
        /\ NoStoreError => Successes >= 1

\* C3 witness: every call is finished without a store error and fewer than
\* K of them succeeded.
AtMostKSucceedWitness ==
    AllDone /\ NoStoreError /\ DistinctCallers /\ RaceK < NRaceReqs /\ Successes < RaceK

\* C4 (RaceSpec): no two successful claim calls return the same ticket
\* code, the records being provisioned with pairwise distinct codes.
DistinctCodes ==
    \A r1, r2 \in ClaimReqs :
        (r1 # r2 /\ Succeeded(r1) /\ Succeeded(r2)) =>
            claim[r1].ticketCode # claim[r2].ticketCode

\* C4 witness: two calls succeeded, and a third that raced for one of their
\* records was refused.
DistinctCodesWitness ==
    \E r1, r2, r3 \in ClaimReqs :
        /\ r1 # r2 /\ Succeeded(r1) /\ Succeeded(r2)
        /\ Done(r3) /\ claim[r3].status = 409
        /\ claim[r3].ticketDoc = claim[r1].ticketDoc

\* Scenario C: saadabad_palace was provisioned with one record, and r1, r2 are
\* its only callers past the field and tier checks, from different wallets,
\* both answered, the store never failing.
ScenarioC(r1, r2) ==
    /\ r1 # r2 /\ Done(r1) /\ Done(r2)
    /\ Cardinality({t \in Tickets : tickets[t].museumId = "saadabad_palace"}) = 1
    /\ \A r \in ClaimReqs :
          (Admitted(r) /\ claim[r].museumId = "saadabad_palace") <=> r \in {r1, r2}
    /\ claim[r1].walletAddress # claim[r2].walletAddress
    /\ NoStoreError

\* the one record of saadabad_palace in scenario C
TheTicket == CHOOSE t \in Tickets : tickets[t].museumId = "saadabad_palace"

\* C5 as stated (Spec): in scenario C one request receives 200 with the
\* ticket's code and the other receives 409.
ScenarioCConflict ==
    \A r1, r2 \in ClaimReqs :
        (ScenarioC(r1, r2) /\ claim[r1].status = 200) =>
            /\ claim[r1].ticketCode = tickets[TheTicket].code
            /\ claim[r2].status = 409

\* C5 amended (Spec): in scenario C exactly one request receives 200 with the
\* ticket's code, and the other receives 409 when its candidate search ran
\* before the winner's commit (it had the ticket as its candidate) and 404
\* when its search ran after it.
ScenarioCOutcome ==
    \A r1, r2 \in ClaimReqs :
        ScenarioC(r1, r2) =>
            /\ claim[r1].status = 200 \/ claim[r2].status = 200
            /\ claim[r1].status = 200 =>
                  /\ claim[r1].ticketCode = tickets[TheTicket].code
                  /\ tickets[TheTicket].assignedTo = claim[r1].walletAddress
                  /\ claim[r2].status \in {409, 404}
                  /\ claim[r2].status = 409 <=> claim[r2].ticketDoc = TheTicket
                  /\ claim[r2].status = 404 <=> claim[r2].ticketDoc = NoDoc

\* C5 witness: scenario C ended with a 200 and a 409.
ScenarioCWitness ==
    \E r1, r2 \in ClaimReqs :
        ScenarioC(r1, r2) /\ claim[r1].status = 200 /\ claim[r2].status = 409

\* C6 (LiveSpec): progress.  Whenever the candidate search of a claim call
\* returns a record (so a record of the resource was available), that
\* record is eventually claimed, by this caller or by a concurrent one,
\* the store staying available and every round trip being answered.
Progress ==
    \A r \in 1..NRaceReqs : \A t \in Tickets :
        (claim[r].pc = "txn" /\ claim[r].ticketDoc = t)
            ~> (tickets[t].museumId = claim[r].museumId /\ tickets[t].status = "claimed")

\* C6 witness: a caller lost the race for its candidate, which is claimed by
\* the concurrent caller, and another caller committed its own candidate.
ProgressWitness ==
    \E r1, r2 \in ClaimReqs :
        /\ claim[r1].status = 409
        /\ tickets[claim[r1].ticketDoc].status = "claimed"
        /\ Succeeded(r2) /\ tickets[claim[r2].ticketDoc].assignedTo = claim[r2].walletAddress

\* the caller's tier is strictly below the tier the resource requires, in
\* the order Base < Silver < Gold < Platinum
TierRank(tier) == CHOOSE i \in 1..Len(TIERS) : TIERS[i] = tier
BelowRequired(museumId, tier) ==
    /\ TIER_MAPPING(museumId) # NoTier
    /\ TierRank(tier) < TierRank(TIER_MAPPING(museumId))

\* a finished call with all three fields, made when its resource had no
\* available record left
SoldOutCall(r) ==
    /\ Done(r) /\ claim[r].soldOutAtCall
    /\ ~FieldsMissing(claim[r].walletAddress, claim[r].museumId, claim[r].tier)

SoldOutAnyTier ==
    \A r \in ClaimReqs :
        (SoldOutCall(r) /\ ~claim[r].storeError) => claim[r].status = 404

\* C8 amended (Spec): against a resource with no available record, a call
\* whose tier is below the required tier ends 403 before the store is
\* queried; every other tier ends 404 (or 500 when the store query fails).
SoldOutByTier ==
    \A r \in ClaimReqs :
        SoldOutCall(r) =>
            IF BelowRequired(claim[r].museumId, claim[r].tier)
            THEN claim[r].status = 403 /\ claim[r].storeCalls = 0
            ELSE /\ claim[r].storeCalls = 1
                 /\ claim[r].status = IF claim[r].storeError THEN 500 ELSE 404

\* C8 witness: after the last record of saadabad_palace was claimed by one
\* call, a Base call for it ended 403.
SoldOutByTierWitness ==
    \E r1, r2 \in ClaimReqs :
        /\ Succeeded(r1) /\ claim[r1].museumId = "saadabad_palace"
        /\ SoldOutCall(r2) /\ claim[r2].museumId = "saadabad_palace"
        /\ claim[r2].tier = "Base" /\ claim[r2].status = 403

IsMalformed(walletAddress) == walletAddress # Missing /\ ~IsPublicKey(walletAddress)

\* C9 as stated (ServerSpec): a request whose only defect is a malformed
\* wallet string is answered 400 by /api/auth/pgt and by /api/claim-ticket,
\* before any oracle call or store call, and no TicketRecord is assigned to
\* a malformed address.
MalformedRejected ==
    /\ \A a \in AuthReqs :
          IsMalformed(auth[a].walletAddress) =>
              /\ auth[a].oracleCalls = 0
              /\ auth[a].pc = "done" /\ auth[a].status = 400
    /\ \A r \in ClaimReqs :
          (/\ IsMalformed(claim[r].walletAddress)
           /\ ~FieldsMissing(claim[r].walletAddress, claim[r].museumId, claim[r].tier)
           /\ ~BelowRequired(claim[r].museumId, claim[r].tier)) =>
              /\ claim[r].storeCalls = 0
              /\ claim[r].pc = "done" /\ claim[r].status = 400
    /\ \A t \in Tickets : tickets[t].assignedTo = Empty \/ ~IsMalformed(tickets[t].assignedTo)

\* C10 as stated (Spec): gate before allocate.  A TicketRecord is claimed
\* only for a wallet that passes the access gate: a well-formed address
\* whose balance on the ledger is at least the minimum.
GateBeforeAllocate ==
    \A t \in Tickets :
        tickets[t].status = "claimed" =>
            /\ IsPublicKey(tickets[t].assignedTo)
            /\ HasAccount(tickets[t].assignedTo)
            /\ Ledger(tickets[t].assignedTo) >= MIN_REQUIRED_BALANCE

\* ------------------------------------------------------------ tier gating
\* a call that carried all three fields
Complete(r) ==
    /\ claim[r].pc # "idle"
    /\ ~FieldsMissing(claim[r].walletAddress, claim[r].museumId, claim[r].tier)

\* C11 (Spec): tier gating.  A claim request carrying all its fields is
\* rejected with 403 exactly when its resource declares a required tier
\* and the caller's tier is strictly below it in Base < Silver < Gold <
\* Platinum; the rejection comes before any store call, and a resource
\* that declares no requirement never answers 403.
TierGating ==
    \A r \in ClaimReqs :
        Complete(r) =>
            /\ claim[r].status = 403 <=> BelowRequired(claim[r].museumId, claim[r].tier)
            /\ claim[r].status = 403 => claim[r].pc = "done" /\ claim[r].storeCalls = 0
            /\ TIER_MAPPING(claim[r].museumId) = NoTier => claim[r].status # 403

\* a Base caller turned away from saadabad_palace next to a Base caller of
\* golestan_palace, which declares no tier, who got a ticket
TierGatingWitness ==
    \E r1, r2 \in ClaimReqs :
        /\ claim[r1].museumId = "saadabad_palace" /\ claim[r1].tier = "Base"
        /\ claim[r1].walletAddress # Missing /\ claim[r1].status = 403
        /\ claim[r2].museumId = "golestan_palace" /\ claim[r2].tier = "Base"
        /\ Succeeded(r2)

\* --------------------------------------------------- tier classification
Classified(i) == level[i].tier # NoLevel
Tokens(n) == n * Scale

\* C12 (TierSpec): getCurrentTierLevel is total on the non-negative
\* balances and returns the first match of its descending inclusive
\* thresholds: Platinum from 3,333,334 tokens, Gold from 1,666,667, Silver
\* from 333,334, Base below; it never ranks a larger balance lower, and
\* 2,000,000 tokens are Gold.
TierClassification ==
    /\ \A i \in DOMAIN level :
          Classified(i) =>
              LET b == level[i].balance
                  tier == level[i].tier
              IN  /\ tier \in {TIERS[k] : k \in DOMAIN TIERS}
                  /\ tier = "Platinum" <=> b >= Tokens(3333334)
                  /\ tier = "Gold" <=> b >= Tokens(1666667) /\ b < Tokens(3333334)
                  /\ tier = "Silver" <=> b >= Tokens(333334) /\ b < Tokens(1666667)
                  /\ tier = "Base" <=> b < Tokens(333334)
                  /\ b = Tokens(2000000) => tier = "Gold"
    /\ \A i, j \in DOMAIN level :
          (Classified(i) /\ Classified(j) /\ level[i].balance <= level[j].balance) =>
              TierRank(level[i].tier) <= TierRank(level[j].tier)

\* 2,000,000 tokens classified Gold next to the half token below the Gold
\* threshold classified Silver
TierClassificationWitness ==
    \E i, j \in DOMAIN level :
        /\ level[i].balance = Tokens(2000000) /\ level[i].tier = "Gold"
        /\ level[j].balance = Tokens(1666667) - 1 /\ level[j].tier = "Silver"

\* -------------------------------------------------------------- auth gate
\* a finished /api/auth/pgt request whose address parsed and whose oracle
\* call settled
Fetched(a) ==
    /\ auth[a].pc = "done"
    /\ IsPublicKey(auth[a].walletAddress)

\* C13 (AuthSpec): for a well-formed wallet without a token account
\* checkPgtBalance returns 0 and /api/auth/pgt answers 401; for every
\* well-formed wallet the answer is 200 exactly when the balance
\* checkPgtBalance returned is at least one token, and 401 otherwise; a
\* balance the oracle reports is the ledger's.
ZeroBalanceRejected ==
    \A a \in AuthReqs :
        Fetched(a) =>
            /\ auth[a].oracleCalls = 1
            /\ ~HasAccount(auth[a].walletAddress) =>
                    auth[a].balance = 0 /\ auth[a].status = 401
            /\ auth[a].oracle = "balance" =>
                    auth[a].balance = Ledger(auth[a].walletAddress)
            /\ auth[a].status = 200 <=> auth[a].balance >= Tokens(1)
            /\ auth[a].status = 401 <=> auth[a].balance < Tokens(1)

\* W2, which has no token account, was answered 401 with balance 0 and W1,
\* holding 2,000,000 tokens, was answered 200
ZeroBalanceRejectedWitness ==
    \E a1, a2 \in AuthReqs :
        /\ auth[a1].walletAddress = "W2" /\ auth[a1].oracle = "not-found"
        /\ auth[a1].balance = 0 /\ auth[a1].status = 401
        /\ auth[a2].walletAddress = "W1" /\ auth[a2].oracle = "balance"
        /\ auth[a2].status = 200

\* C14 as stated (AuthSpec): an oracle timeout or connectivity failure is
\* never turned into a balance of 0: the request ends with a 500-class
\* answer, not 401, and only account-not-found gives the zero balance.
TimeoutIsServerError ==
    \A a \in AuthReqs :
        (auth[a].pc = "done" /\ auth[a].oracle = "timeout") =>
            /\ auth[a].status >= 500
            /\ auth[a].status # 401

\* ------------------------------------------------------ failed transaction
\* the request's transaction has committed its update
Committed(r) == claim[r].pc = "committed" \/ Succeeded(r)
\* the request ends here with the given status
Ends(r, status) == claim[r].status = NoStatus /\ claim'[r].status = status

\* C15 (RaceSpec): a failed transaction leaves the record untouched.  The
\* step in which a request's transaction ends without committing, with 409
\* after the re-read or with 500 after a store failure, changes no field
\* of the candidate record (nor of any other record), and every update
\* ever committed belongs to a request whose transaction committed: a
\* request answered 409 or 500 has written nothing.
FailedTxnWritesNothing ==
    /\ [][\A r \in ClaimReqs :
            (Ends(r, 409) \/ Ends(r, 500)) =>
                /\ claim[r].ticketDoc # NoDoc =>
                      LET before == tickets[claim[r].ticketDoc]
                          after == tickets'[claim[r].ticketDoc]
                      IN  /\ after.status = before.status
                          /\ after.assignedTo = before.assignedTo
                          /\ after.assignedTime = before.assignedTime
                /\ tickets' = tickets]_vars
    /\ [](\A t \in Tickets :
            commits[t] = Cardinality({r \in ClaimReqs :
                            Committed(r) /\ claim[r].ticketDoc = t}))

\* one transaction ended 409 on a record another request won, and one
\* ended 500 on a candidate that is still available and unassigned
FailedTxnWritesNothingWitness ==
    \E r1, r2 \in ClaimReqs :
        /\ Done(r1) /\ claim[r1].status = 409
        /\ tickets[claim[r1].ticketDoc].status = "claimed"
        /\ Done(r2) /\ claim[r2].status = 500 /\ claim[r2].ticketDoc # NoDoc
        /\ tickets[claim[r2].ticketDoc] = Provisioned(claim[r2].ticketDoc, RaceK)

\* ----------------------------------------------------------------- conflict
\* another request's transaction has committed the claim of r's candidate
LostRace(r) ==
    /\ claim[r].ticketDoc # NoDoc
    /\ \E w \in ClaimReqs \ {r} :
          Committed(w) /\ claim[w].ticketDoc = claim[r].ticketDoc

\* C16 (RaceSpec): 409 means a lost race.  The candidate a search returns
\* is available at that moment; a request is answered 409 only for a
\* candidate that another request's transaction has claimed since, and a
\* finished request that had a candidate and met no store failure has 409
\* exactly when another request claimed that candidate (and 200
\* otherwise): without a concurrent claimer there is no 409.
ConflictIsLostRace ==
    /\ [][\A r \in ClaimReqs :
            /\ (claim[r].pc = "search" /\ claim'[r].pc = "txn") =>
                   tickets[claim'[r].ticketDoc].status = "available"
            /\ Ends(r, 409) =>
                   tickets[claim[r].ticketDoc].status = "claimed" /\ LostRace(r)]_vars
    /\ [](\A r \in ClaimReqs :
            /\ claim[r].status = 409 => LostRace(r)
            /\ (Done(r) /\ claim[r].ticketDoc # NoDoc /\ ~claim[r].storeError) =>
                   /\ claim[r].status = 409 <=> LostRace(r)
                   /\ claim[r].status = 200 <=> ~LostRace(r))

\* a request already answered 409 for the record whose winner has
\* committed and is about to be answered
ConflictIsLostRaceWitness ==
    \E r, w \in ClaimReqs :
        /\ Done(r) /\ claim[r].status = 409
        /\ claim[w].pc = "committed" /\ claim[w].ticketDoc = claim[r].ticketDoc
        /\ tickets[claim[r].ticketDoc].assignedTo = claim[w].walletAddress

\* ----------------------------------------------------------------- no retry
\* C17 (RaceSpec): no automatic retry.  A claim request issues at most one
\* candidate query and at most one runTransaction call; once it has a
\* candidate it never takes another, it never goes back to searching, and
\* the 409 it gets after losing the race is final, even while another
\* record of the resource is still available.
NoRetry ==
    /\ [][\A r \in ClaimReqs :
            /\ claim[r].ticketDoc # NoDoc => claim'[r].ticketDoc = claim[r].ticketDoc
            /\ claim'[r].pc = "search" => claim[r].pc \in {"idle", "search"}
            /\ claim'[r].storeCalls >= claim[r].storeCalls
            /\ Done(r) => claim'[r] = claim[r]]_vars
    /\ [](\A r \in ClaimReqs :
            /\ claim[r].storeCalls <= 2
            /\ claim[r].status = 409 => Done(r) /\ claim[r].storeCalls = 2)

\* a request answered 409 after one query and one transaction while
\* another record of its resource is still available
NoRetryWitness ==
    \E r \in ClaimReqs :
        /\ Done(r) /\ claim[r].status = 409 /\ claim[r].storeCalls = 2
        /\ ~SoldOut(claim[r].museumId)

\* ------------------------------------------------------ response and store
\* the 200 responses that returned the code of record t
ResponsesFor(t) == {r \in ClaimReqs : Succeeded(r) /\ claim[r].ticketCode = tickets[t].code}
\* the record a 200 response is about
Backs(t, r) ==
    /\ tickets[t].code = claim[r].ticketCode
    /\ tickets[t].museumId = claim[r].museumId
    /\ tickets[t].status = "claimed"
    /\ tickets[t].assignedTo = claim[r].walletAddress

\* C18 as stated (Spec): every 200 response is backed by a record with the
\* returned code, the requested museum, status claimed and assignedTo the
\* caller's wallet, and every claimed record has exactly one 200 response
\* that returned its code.
ResponseBackedByStore ==
    /\ \A r \in ClaimReqs : Succeeded(r) => \E t \in Tickets : Backs(t, r)
    /\ \A t \in Tickets :
          tickets[t].status = "claimed" => Cardinality(ResponsesFor(t)) = 1

\* C18 amended (Spec): every 200 response is backed by such a record from
\* the response on (a claimed record never changes again); every claimed
\* record was committed by exactly one request, has at most one 200
\* response returning its code, and has exactly one as soon as the request
\* that committed it has been answered.
ResponseAfterCommit ==
    /\ [](\A r \in ClaimReqs : Succeeded(r) => \E t \in Tickets : Backs(t, r))
    /\ [][\A t \in Tickets :
            tickets[t].status = "claimed" => tickets'[t] = tickets[t]]_vars
    /\ [](\A t \in Tickets :
            tickets[t].status = "claimed" =>
                LET committers == {r \in ClaimReqs : Committed(r) /\ claim[r].ticketDoc = t}
                IN  /\ Cardinality(committers) = 1
                    /\ ResponsesFor(t) \subseteq committers
                    /\ (\A r \in committers : Done(r)) => Cardinality(ResponsesFor(t)) = 1)

\* one record claimed and answered 200 to its caller, another claimed by a
\* request whose response has not been sent yet
ResponseAfterCommitWitness ==
    \E r, w \in ClaimReqs :
        /\ Succeeded(r) /\ Backs(claim[r].ticketDoc, r)
        /\ claim[w].pc = "committed"
        /\ tickets[claim[w].ticketDoc].status = "claimed"
        /\ ResponsesFor(claim[w].ticketDoc) = {}

\* -------------------------------------------------------------------- frame
\* the step commits the update of request r's transaction to record t
Commits(r, t) ==
    /\ claim[r].pc = "commit" /\ claim'[r].pc = "committed"
    /\ claim[r].ticketDoc = t

\* C19 (Spec): frame of a claim request.  A record changes only in the
\* step that commits the transaction of a request whose candidate it is;
\* it belongs to the museum that request asked for and keeps its museum
\* and code, and every other record is unchanged in that step.  A request
\* commits at most once and is then answered 200, so it changes at most
\* one record; a request answered 400 or 403 made no store call, and one
\* answered 400, 403 or 404 never had a candidate and changed nothing.
ClaimFrame ==
    /\ [][\A t \in Tickets :
            tickets'[t] # tickets[t] =>
                /\ \E r \in ClaimReqs :
                      Commits(r, t) /\ tickets[t].museumId = claim[r].museumId
                /\ tickets'[t].museumId = tickets[t].museumId
                /\ tickets'[t].code = tickets[t].code
                /\ \A u \in Tickets \ {t} : tickets'[u] = tickets[u]]_vars
    /\ [][\A r \in ClaimReqs :
            claim[r].pc = "committed" =>
                claim'[r].pc = "committed" \/ Ends(r, 200)]_vars
    /\ [](\A r \in ClaimReqs :
            /\ claim[r].status \in {400, 403} => claim[r].storeCalls = 0
            /\ claim[r].status \in {400, 403, 404} =>
                   claim[r].ticketDoc = NoDoc /\ ~Committed(r))

\* the only saadabad_palace record went to one request, a second request
\* for saadabad_palace was answered 404, and every other record is as
\* provisioned
ClaimFrameWitness ==
    \E r, w \in ClaimReqs :
        /\ Succeeded(r) /\ claim[r].museumId = "saadabad_palace"
        /\ Backs(claim[r].ticketDoc, r)
        /\ Done(w) /\ claim[w].status = 404 /\ claim[w].museumId = "saadabad_palace"
        /\ \A t \in Tickets \ {claim[r].ticketDoc} : tickets[t] = Provisioned(t, 1)

\* ------------------------------------------------- status and assignment
\* C20 (Spec): status/assignment consistency.  Every record has status
\* available or claimed; it is available exactly when assignedTo (and the
\* assignment time) is empty, and claimed exactly when assignedTo is the
\* wallet of the request whose transaction committed it.
StatusMatchesAssignment ==
    \A t \in Tickets :
        /\ tickets[t].status \in {"available", "claimed"}
        /\ tickets[t].status = "available" <=> tickets[t].assignedTo = Empty
        /\ tickets[t].status = "available" <=> tickets[t].assignedTime = Empty
        /\ tickets[t].status = "claimed" <=>
               \E r \in ClaimReqs :
                   /\ Committed(r) /\ claim[r].ticketDoc = t
                   /\ claim[r].walletAddress # Missing
                   /\ tickets[t].assignedTo = claim[r].walletAddress

\* a record claimed for W2 next to a record still available and unassigned
StatusMatchesAssignmentWitness ==
    \E t, u \in Tickets :
        /\ tickets[t].status = "claimed" /\ tickets[t].assignedTo = "W2"
        /\ tickets[t].assignedTime # Empty
        /\ tickets[u].status = "available" /\ tickets[u].assignedTo = Empty

====
